---------------------------- MODULE Spec2Model ----------------------------
(***************************************************************************)
(* ChatRenderer (static/js/chat.js): a view object that owns an ordered    *)
(* list of message records and the DOM children of one container element.  *)
(*                                                                         *)
(* A JavaScript object is a function from the keys it carries to their     *)
(* values, so "key absent" and "key present but falsy" are different       *)
(* inputs, and the object spread {...a, ...b} is Spread(a, b) below.       *)
(* Every public method runs to completion before any timer callback runs   *)
(* (one JavaScript thread), so each call and each timer callback is one    *)
(* action.  Timers are kept in the order in which the event loop fires     *)
(* them.  Only the timer callbacks that change the message list or the     *)
(* child list of the container are modelled; callbacks that only set       *)
(* style properties (the fade animations, requestAnimationFrame) change    *)
(* nothing any operation reads.  The fields timestamp, userAvatar and      *)
(* userInitial are likewise only copied and drawn, never tested.           *)
(***************************************************************************)
EXTENDS Integers, Sequences, FiniteSets, TLC

VARIABLES
    messages,    \* this.messages: the in-memory list of message records
    container,   \* this.container's children, in DOM order
    isTyping,    \* this.isTyping
    timers,      \* pending setTimeout callbacks, in firing order
    clock,       \* the reading Date.now() returns
    log,         \* what the last step wrote with console.error ("" if nothing)
    dispatched,  \* the CustomEvents the last step dispatched on document
    lastLoad,    \* the argument of the latest loadMessages, while no other
                 \* call has changed the list since
    calls        \* how many calls and clicks the page has made so far

vars == <<messages, container, isTyping, timers, clock, log, dispatched, lastLoad, calls>>

----------------------------------------------------------------------------
(* Bounds of the model *)

MaxCalls == 3     \* calls and clicks in one behaviour
MaxClock == 2     \* how often the clock reading changes in one behaviour

(* Program constants *)

LoadStaggerMs == 100   \* loadMessages: index * 100
HideStepMs == 50       \* hideSuggestions: suggestionButtons.length * 50
HideTailMs == 300      \* hideSuggestions: ... + 300
TickMs == 50           \* the unit timer delays are counted in (their gcd)

----------------------------------------------------------------------------
(* JavaScript values *)

Has(o, k) == k \in DOMAIN o

Null == [null |-> TRUE]
IsNull(o) == Has(o, "null")

\* {...base, ...over}: the keys of both, over's value where both carry the key
Spread(base, over) ==
    [k \in DOMAIN base \cup DOMAIN over |->
        IF k \in DOMAIN over THEN over[k] ELSE base[k]]

\* Date.now().toString()
DateNowString == ToString(clock)

RemoveAt(seq, i) == [j \in 1..(Len(seq) - 1) |-> IF j < i THEN seq[j] ELSE seq[j + 1]]

----------------------------------------------------------------------------
(* The state the methods work on, as one record, so that a method that     *)
(* calls another is the composition of the two.                            *)

This ==
    [messages |-> messages, container |-> container, isTyping |-> isTyping,
     timers |-> timers, log |-> "", dispatched |-> <<>>]

\* A new DOM node: no live reference (a child of the container, a timer's
\* closure) holds its identity.
UsedUids(s) ==
    {s.container[i].uid : i \in DOMAIN s.container}
        \cup {s.timers[i].target : i \in DOMAIN s.timers}

createElement(s) ==
    CHOOSE n \in 0..(Len(s.container) + Len(s.timers)) :
        /\ n \notin UsedUids(s)
        /\ \A k \in 0..(n - 1) : k \in UsedUids(s)

\* setTimeout(callback, delayMs): due after every pending callback that is due
\* no later.
setTimeout(s, callback, delayMs) ==
    LET t == [callback EXCEPT !.rem = delayMs \div TickMs]
        before == {i \in DOMAIN s.timers : s.timers[i].rem <= t.rem}
        n == Cardinality(before)
    IN  [s EXCEPT !.timers =
            SubSeq(@, 1, n) \o <<t>> \o SubSeq(@, n + 1, Len(@))]

NoMsg == [text |-> ""]
NoUid == -1

----------------------------------------------------------------------------
(* renderSuggestions(suggestions, messageId): one button per suggestion;   *)
(* each button's click handler closes over its suggestion and messageId.   *)

renderSuggestions(suggestions, messageId) ==
    [i \in DOMAIN suggestions |->
        [suggestion |-> suggestions[i], messageId |-> messageId]]

(* renderMessage(message): appends one message-item element.               *)
renderMessage(s, message) ==
    LET chips ==
            IF /\ message.sender = "ai"
               /\ Has(message, "suggestions")
               /\ Len(message.suggestions) > 0
            THEN renderSuggestions(message.suggestions, message.id)
            ELSE <<>>
        messageElement ==
            [uid |-> createElement(s), kind |-> "message-item",
             mid |-> message.id, chips |-> chips]
    IN  [s EXCEPT !.container = Append(@, messageElement)]

\* addMessage with unshift in place of push
addMessage_unshift(s, message) ==
    IF IsNull(message) \/ ~Has(message, "text") \/ message.text = ""
    THEN [s EXCEPT !.log = "Invalid message object"]
    ELSE
        LET defaults ==
                [id |-> IF Has(message, "id") /\ message.id # ""
                        THEN message.id ELSE DateNowString,
                 text |-> message.text,
                 sender |-> IF Has(message, "sender") /\ message.sender # ""
                            THEN message.sender ELSE "user"]
            s1 == [s EXCEPT !.messages = <<Spread(defaults, message)>> \o @]
        IN  renderMessage(s1, s1.messages[1])

\* addMessage with the guard `if (!message)` only
addMessage_noTextCheck(s, message) ==
    IF IsNull(message)
    THEN [s EXCEPT !.log = "Invalid message object"]
    ELSE
        LET defaults ==
                [id |-> IF Has(message, "id") /\ message.id # ""
                        THEN message.id ELSE DateNowString,
                 text |-> IF Has(message, "text") THEN message.text ELSE "",
                 sender |-> IF Has(message, "sender") /\ message.sender # ""
                            THEN message.sender ELSE "user"]
            s1 == [s EXCEPT !.messages = Append(@, Spread(defaults, message))]
        IN  renderMessage(s1, s1.messages[Len(s1.messages)])

(* addMessage(message) *)
addMessage(s, message) ==
    IF IsNull(message) \/ ~Has(message, "text") \/ message.text = ""
    THEN [s EXCEPT !.log = "Invalid message object"]
    ELSE
        LET defaults ==
                [id |-> IF Has(message, "id") /\ message.id # ""
                        THEN message.id ELSE DateNowString,
                 text |-> message.text,
                 sender |-> IF Has(message, "sender") /\ message.sender # ""
                            THEN message.sender ELSE "user"]
            s1 == [s EXCEPT !.messages = Append(@, Spread(defaults, message))]
        IN  renderMessage(s1, s1.messages[Len(s1.messages)])

(* showTyping() *)
showTyping(s) ==
    IF s.isTyping THEN s
    ELSE
        LET typingElement ==
                [uid |-> createElement(s), kind |-> "typing-indicator",
                 mid |-> "", chips |-> <<>>]
        IN  [s EXCEPT !.isTyping = TRUE, !.container = Append(@, typingElement)]

\* document.getElementById('typing-indicator'): the first such element that is
\* in the document (0 if none); the container is the only place one is put.
getTypingElement(s) ==
    LET hits == {i \in DOMAIN s.container : s.container[i].kind = "typing-indicator"}
    IN  IF hits = {} THEN 0 ELSE CHOOSE i \in hits : \A j \in hits : i <= j

(* hideTyping() *)
hideTyping(s) ==
    LET i == getTypingElement(s)
        s1 == IF i # 0 THEN [s EXCEPT !.container = RemoveAt(@, i)] ELSE s
    IN  [s1 EXCEPT !.isTyping = FALSE]

(* clearMessages() *)
clearMessages(s) ==
    [s EXCEPT !.container = <<>>, !.messages = <<>>]

(* loadMessages(messages): arg.isArray is Array.isArray(messages) *)
RECURSIVE scheduleAdds(_, _, _)
scheduleAdds(s, items, index) ==
    IF index >= Len(items) THEN s
    ELSE scheduleAdds(
            setTimeout(s, [kind |-> "addMessage", rem |-> 0,
                           msg |-> items[index + 1], target |-> NoUid],
                       index * LoadStaggerMs),
            items, index + 1)

loadMessages(s, arg) ==
    IF ~arg.isArray
    THEN [s EXCEPT !.log = "Messages must be an array"]
    ELSE scheduleAdds(clearMessages(s), arg.items, 0)

\* findLastIndex in place of findIndex
findLastIndex(msgs, messageId) ==
    LET hits == {i \in DOMAIN msgs : msgs[i].id = messageId}
    IN  IF hits = {} THEN 0 ELSE CHOOSE i \in hits : \A j \in hits : i >= j

\* this.messages.findIndex(msg => msg.id === messageId), 1-based; 0 for -1
findIndex(msgs, messageId) ==
    LET hits == {i \in DOMAIN msgs : msgs[i].id = messageId}
    IN  IF hits = {} THEN 0 ELSE CHOOSE i \in hits : \A j \in hits : i <= j

\* this.container.querySelector(`[data-message-id="${messageId}"]`): the first
\* element in document order carrying the attribute; a suggestions container
\* carries its message's id and follows its message element, so the first hit
\* is a message element (0 if none).
querySelector(cont, messageId) ==
    LET hits == {i \in DOMAIN cont :
                    cont[i].kind = "message-item" /\ cont[i].mid = messageId}
    IN  IF hits = {} THEN 0 ELSE CHOOSE i \in hits : \A j \in hits : i <= j

(* updateMessage(messageId, updates) *)
updateMessage(s, messageId, updates) ==
    LET messageIndex == findIndex(s.messages, messageId)
    IN  IF messageIndex = 0
        THEN [s EXCEPT !.log = "Message with ID " \o messageId \o " not found"]
        ELSE
            LET s1 == [s EXCEPT !.messages[messageIndex] = Spread(@, updates)]
                el == querySelector(s1.container, messageId)
                s2 == IF el # 0 THEN [s1 EXCEPT !.container = RemoveAt(@, el)] ELSE s1
            IN  renderMessage(s2, s2.messages[messageIndex])

(* hideSuggestions(messageId) *)
hideSuggestions(s, messageId) ==
    LET el == querySelector(s.container, messageId)
    IN  IF el = 0 \/ s.container[el].chips = <<>> THEN s
        ELSE setTimeout(s, [kind |-> "removeSuggestions", rem |-> 0,
                            msg |-> NoMsg, target |-> s.container[el].uid],
                        Len(s.container[el].chips) * HideStepMs + HideTailMs)

\* handleSuggestionClick with the event dispatched before the message is added
handleSuggestionClick_eventFirst(s, suggestion, messageId) ==
    LET suggestionText == suggestion.text
        event == [type |-> "suggestionClick", suggestion |-> suggestion,
                  messageId |-> messageId, text |-> suggestionText,
                  observed |-> s.messages]
        s1 == [s EXCEPT !.dispatched = Append(@, event)]
        s2 == addMessage(s1, [id |-> DateNowString, text |-> suggestionText,
                              sender |-> "user"])
    IN  hideSuggestions(s2, messageId)

(* handleSuggestionClick(suggestion, messageId) *)
handleSuggestionClick(s, suggestion, messageId) ==
    LET suggestionText == suggestion.text
        s1 == addMessage(s, [id |-> DateNowString, text |-> suggestionText,
                             sender |-> "user"])
        s2 == hideSuggestions(s1, messageId)
        event == [type |-> "suggestionClick", suggestion |-> suggestion,
                  messageId |-> messageId, text |-> suggestionText,
                  observed |-> s2.messages]
    IN  [s2 EXCEPT !.dispatched = Append(@, event)]

(* The callback hideSuggestions schedules: detach the suggestions container *)
(* from its message element, wherever that element now is.                 *)
removeSuggestions(s, target) ==
    [s EXCEPT !.container =
        [i \in DOMAIN @ |-> IF @[i].uid = target THEN [@[i] EXCEPT !.chips = <<>>]
                            ELSE @[i]]]

(* The event loop runs the callback at the head of the timer queue.        *)
runTimer(s) ==
    LET t == Head(s.timers)
        s1 == [s EXCEPT !.timers = Tail(@)]
    IN  IF t.kind = "addMessage" THEN addMessage(s1, t.msg)
        ELSE removeSuggestions(s1, t.target)

----------------------------------------------------------------------------
(* The arguments the callers pass *)

Yes == [id |-> "s1", text |-> "yes"]
Blank == [id |-> "s2", text |-> ""]

MsgText == [text |-> "hi"]
MsgUser == [id |-> "a", text |-> "hi", sender |-> "user"]
MsgAi == [id |-> "b", text |-> "hi", sender |-> "ai", suggestions |-> <<Yes, Blank>>]
MsgBot == [id |-> "a", text |-> "hi", sender |-> "bot"]
MsgFalsy == [text |-> "hi", sender |-> ""]
MsgNoText == [id |-> "a"]
MsgEmptyText == [id |-> "a", text |-> ""]

MessageArgs ==
    {Null, MsgNoText, MsgEmptyText, MsgText, MsgUser, MsgAi, MsgBot, MsgFalsy}

IdArgs == {"a", "b", "0"}
UpdateArgs == {[text |-> "ed"], [id |-> "b"]}

NotAnArray == [isArray |-> FALSE, items |-> <<>>]
Array(items) == [isArray |-> TRUE, items |-> items]
LoadArgs == {NotAnArray, Array(<<MsgUser, MsgEmptyText, MsgAi>>), Array(<<MsgText>>)}

NoLoad == [active |-> FALSE, items |-> <<>>]

----------------------------------------------------------------------------
(* Init: the state the constructor leaves when the container exists *)

Init ==
    /\ messages = <<>>
    /\ container = <<>>
    /\ isTyping = FALSE
    /\ timers = <<>>
    /\ clock = 0
    /\ log = ""
    /\ dispatched = <<>>
    /\ lastLoad = NoLoad
    /\ calls = 0

\* A step ends in state s.
Becomes(s) ==
    /\ messages' = s.messages
    /\ container' = s.container
    /\ isTyping' = s.isTyping
    /\ timers' = s.timers
    /\ log' = s.log
    /\ dispatched' = s.dispatched
    /\ clock' = clock

\* One more call or click by the page.
Called ==
    /\ calls < MaxCalls
    /\ calls' = calls + 1

AddMessage(message) ==
    /\ Called
    /\ Becomes(addMessage(This, message))
    /\ lastLoad' = NoLoad

UpdateMessage(messageId, updates) ==
    /\ Called
    /\ Becomes(updateMessage(This, messageId, updates))
    /\ lastLoad' = NoLoad

ClearMessages ==
    /\ Called
    /\ Becomes(clearMessages(This))
    /\ lastLoad' = NoLoad

LoadMessages(arg) ==
    /\ Called
    /\ Becomes(loadMessages(This, arg))
    /\ lastLoad' = IF arg.isArray THEN [active |-> TRUE, items |-> arg.items]
                   ELSE lastLoad

ShowTyping ==
    /\ Called
    /\ Becomes(showTyping(This))
    /\ UNCHANGED lastLoad

HideTyping ==
    /\ Called
    /\ Becomes(hideTyping(This))
    /\ UNCHANGED lastLoad

\* The user clicks button j of the suggestions shown under child i.
ClickSuggestion(i, j) ==
    /\ Called
    /\ Becomes(handleSuggestionClick(This, container[i].chips[j].suggestion,
                                     container[i].chips[j].messageId))
    /\ lastLoad' = NoLoad

\* The event loop runs the next due callback.
TimerFires ==
    /\ timers # <<>>
    /\ Head(timers).rem = 0
    /\ Becomes(runTimer(This))
    /\ UNCHANGED <<lastLoad, calls>>

\* d units of time pass: no more than brings the next pending callback due.
\* Date.now() then returns a later reading; readings are only ever compared
\* for equality (as ids), so consecutive numbers stand for them.
NextDue ==
    LET waiting == {timers[i].rem : i \in DOMAIN timers} \ {0}
    IN  IF waiting = {} THEN 1 ELSE CHOOSE r \in waiting : \A q \in waiting : r <= q

Elapse(d) ==
    /\ clock < MaxClock
    /\ clock' = clock + 1
    /\ timers' = [i \in DOMAIN timers |->
                    [timers[i] EXCEPT !.rem = IF @ > d THEN @ - d ELSE 0]]
    /\ log' = ""
    /\ dispatched' = <<>>
    /\ UNCHANGED <<messages, container, isTyping, lastLoad, calls>>

Next ==
    \/ \E message \in MessageArgs : AddMessage(message)
    \/ \E messageId \in IdArgs, updates \in UpdateArgs : UpdateMessage(messageId, updates)
    \/ ClearMessages
    \/ \E arg \in LoadArgs : LoadMessages(arg)
    \/ ShowTyping
    \/ HideTyping
    \/ \E i \in DOMAIN container : \E j \in DOMAIN container[i].chips : ClickSuggestion(i, j)
    \/ TimerFires
    \/ \E d \in 1..NextDue : Elapse(d)

Spec == Init /\ [][Next]_vars

----------------------------------------------------------------------------
(* What the properties read *)

\* data-message-id of the message-item children, in DOM order
DomIds ==
    LET items == SelectSeq(container, LAMBDA el : el.kind = "message-item")
    IN  [i \in DOMAIN items |-> items[i].mid]

\* ids of the records, in list order
ListIds == [i \in DOMAIN messages |-> messages[i].id]

TypingElements == {i \in DOMAIN container : container[i].kind = "typing-indicator"}

\* suggestion chips are on display under a message element with this id
ChipsShown(id) ==
    \E i \in DOMAIN container :
        /\ container[i].kind = "message-item"
        /\ container[i].mid = id
        /\ container[i].chips # <<>>

\* the message's chips were rendered and have been taken away again
ChipsHidden(id) ==
    /\ \E i \in DOMAIN messages :
        /\ messages[i].id = id
        /\ messages[i].sender = "ai"
        /\ Has(messages[i], "suggestions")
        /\ Len(messages[i].suggestions) > 0
    /\ \E i \in DOMAIN container :
        container[i].kind = "message-item" /\ container[i].mid = id
    /\ ~ChipsShown(id)

PendingAdds == {i \in DOMAIN timers : timers[i].kind = "addMessage"}

\* a message addMessage accepts
IsValid(m) == ~IsNull(m) /\ Has(m, "text") /\ m.text # ""

\* the record carries every field of the caller's message
Carries(record, m) == \A k \in DOMAIN m : Has(record, k) /\ record[k] = m[k]

----------------------------------------------------------------------------
(* C1: the data-message-id values of the message-item elements, in DOM     *)
(* order, are the ids of the records of the message list, in list order.   *)
C1_DomMirrorsList == DomIds = ListIds

(* C2: no two records of the message list have the same id.                *)
C2_IdsUnique ==
    \A i, j \in DOMAIN messages : i # j => messages[i].id # messages[j].id

\* the same, as a condition other properties are stated under
IdsDistinct == Cardinality({messages[i].id : i \in DOMAIN messages}) = Len(messages)

(* C6: once every addMessage callback has run after a loadMessages(M), the *)
(* list is exactly the valid messages of M, in M's order.                  *)
C6_LoadReplaces ==
    (lastLoad.active /\ PendingAdds = {}) =>
        LET valid == SelectSeq(lastLoad.items, IsValid)
        IN  /\ Len(messages) = Len(valid)
            /\ \A i \in DOMAIN valid : Carries(messages[i], valid[i])

(* C7: the container holds at most one typing indicator, and isTyping is   *)
(* true exactly when it holds one.                                         *)
C7_TypingAgrees ==
    /\ Cardinality(TypingElements) <= 1
    /\ isTyping <=> TypingElements # {}

(* C9: once the chips of a message have been removed after a click, no     *)
(* step displays chips for that message again (ids being unique).          *)
C9_ChipsStayHidden ==
    [][\A i \in DOMAIN messages :
        (ChipsHidden(messages[i].id) /\ IdsDistinct /\ IdsDistinct')
            => ~ChipsShown(messages[i].id)']_vars

(* C10: every record of the message list has sender "user" or "ai".        *)
C10_SendersValid ==
    \A i \in DOMAIN messages : messages[i].sender \in {"user", "ai"}

----------------------------------------------------------------------------
\* the first position of the list whose record has this id (0 if none)
FirstWithId(id) ==
    IF \E i \in DOMAIN messages : messages[i].id = id
    THEN CHOOSE i \in DOMAIN messages :
            messages[i].id = id /\ \A j \in 1..(i - 1) : messages[j].id # id
    ELSE 0

\* the step is a bulk clear: clearMessages, or loadMessages of an array
BulkClear == ClearMessages \/ \E arg \in LoadArgs : arg.isArray /\ LoadMessages(arg)

\* the step is an updateMessage that writes a new id at position i
Renames(i) ==
    \E messageId \in IdArgs, updates \in UpdateArgs :
        /\ UpdateMessage(messageId, updates)
        /\ Has(updates, "id")
        /\ i = FirstWithId(messageId)
        /\ messages'[i].id = updates.id

\* the step puts exactly one record at the end of the list
AppendsOne ==
    /\ Len(messages') = Len(messages) + 1
    /\ SubSeq(messages', 1, Len(messages)) = messages

(* C3 as stated: on every step that is not a bulk clear the list does not  *)
(* get shorter and the id at every existing position stays the same.       *)
C3_AppendOnlyIds ==
    [][BulkClear \/
        /\ Len(messages') >= Len(messages)
        /\ \A i \in DOMAIN messages : messages'[i].id = messages[i].id]_vars

(* C3 as amended: on every step that is not a bulk clear the list does not *)
(* get shorter and the id at every existing position stays the same, other *)
(* than at the position an updateMessage whose updates carry an id writes; *)
(* addMessage of a valid message and a click on a chip with non-empty text *)
(* put exactly one record at the end.                                      *)
C3_AppendOnlyButRename ==
    [][/\ BulkClear \/
            /\ Len(messages') >= Len(messages)
            /\ \A i \in DOMAIN messages :
                    messages'[i].id = messages[i].id \/ Renames(i)
       /\ \A message \in MessageArgs :
            AddMessage(message) /\ IsValid(message) => AppendsOne
       /\ \A i \in DOMAIN container : \A j \in DOMAIN container[i].chips :
            (ClickSuggestion(i, j) /\ container[i].chips[j].suggestion.text # "")
                => AppendsOne]_vars

\* an updateMessage has written the id "b" over another one, in a list of two
C3_Witness ==
    /\ Len(messages) = 2
    /\ \E i \in DOMAIN messages : messages[i].id = "b" /\ messages[i].sender # "ai"

(* C4: updateMessage(messageId, updates), when a record has that id, keeps *)
(* the length of the list, makes the first record with that id the old     *)
(* record overridden by the fields of updates, and leaves every other      *)
(* record as it was; when no record has that id, it leaves the list and    *)
(* the children of the container as they were.                             *)
C4_UpdateInPlace ==
    [][\A messageId \in IdArgs, updates \in UpdateArgs :
        UpdateMessage(messageId, updates) =>
            LET k == FirstWithId(messageId)
            IN  IF k # 0
                THEN /\ Len(messages') = Len(messages)
                     /\ \A f \in DOMAIN updates : messages'[k][f] = updates[f]
                     /\ \A f \in DOMAIN messages[k] \ DOMAIN updates :
                            messages'[k][f] = messages[k][f]
                     /\ DOMAIN messages'[k] = DOMAIN messages[k] \cup DOMAIN updates
                     /\ \A j \in DOMAIN messages \ {k} : messages'[j] = messages[j]
                ELSE /\ messages' = messages
                     /\ container' = container]_vars

\* two records share an id; the first one was updated and drawn again
C4_Witness ==
    /\ Len(messages) = 2
    /\ messages[1].id = messages[2].id
    /\ messages[1].text = "ed"
    /\ messages[2].text # "ed"
    /\ Len(container) = 2
    /\ container[2].uid < container[1].uid

\* what a click on button j under child i must leave behind
ClickAddsAndTells(i, j) ==
    LET chip == container[i].chips[j].suggestion
        last == messages'[Len(messages')]
    IN  /\ AppendsOne
        /\ last.sender = "user"
        /\ last.text = chip.text
        /\ Len(dispatched') = 1
        /\ dispatched'[1].type = "suggestionClick"
        /\ dispatched'[1].messageId = container[i].mid
        /\ dispatched'[1].text = chip.text
        /\ dispatched'[1].observed = messages'

(* C5 as stated: every click on a suggestion chip of message m appends one *)
(* record with sender 'user' and the suggestion's text and dispatches one  *)
(* 'suggestionClick' event carrying m's id and that text, whose listeners  *)
(* see the record in the list.                                             *)
C5_EveryClickAdds ==
    [][\A i \in DOMAIN container : \A j \in DOMAIN container[i].chips :
        ClickSuggestion(i, j) => ClickAddsAndTells(i, j)]_vars

(* C5 as amended: so does every click on a chip whose suggestion text is   *)
(* not empty; a click on a chip with empty text dispatches the one event,  *)
(* with m's id and the empty text, and leaves the list as it was.          *)
C5_NonEmptyClickAdds ==
    [][\A i \in DOMAIN container : \A j \in DOMAIN container[i].chips :
        ClickSuggestion(i, j) =>
            IF container[i].chips[j].suggestion.text # ""
            THEN ClickAddsAndTells(i, j)
            ELSE /\ messages' = messages
                 /\ Len(dispatched') = 1
                 /\ dispatched'[1].messageId = container[i].mid
                 /\ dispatched'[1].text = ""]_vars

\* the event of a click on "yes" has just been dispatched
C5_Witness ==
    /\ Len(dispatched) = 1
    /\ dispatched[1].text = "yes"
    /\ Len(messages) >= 2
    /\ messages[Len(messages)].text = "yes"

(* C8: addMessage of null or of a message with missing or empty text, be   *)
(* it called by the page, by a loadMessages callback or by a click, leaves *)
(* the list, the children of the container and isTyping as they were; and  *)
(* a record a step appends never has an empty text.                        *)
C8_InvalidRejected ==
    [][/\ \A message \in MessageArgs :
            AddMessage(message) /\ ~IsValid(message)
                => UNCHANGED <<messages, container, isTyping>>
       /\ (TimerFires /\ Head(timers).kind = "addMessage" /\ ~IsValid(Head(timers).msg))
                => UNCHANGED <<messages, container, isTyping>>
       /\ log' = "Invalid message object"
                => UNCHANGED <<messages, container, isTyping>>
       /\ Len(messages') > Len(messages)
                => messages'[Len(messages')].text # ""]_vars

\* an invalid message has just been rejected, with a message and the typing
\* indicator on display
C8_Witness ==
    /\ log = "Invalid message object"
    /\ messages # <<>>
    /\ isTyping
    /\ TypingElements # {}

=============================================================================
